---- MODULE Spec2Model ----
(***************************************************************************)
(* Model of src/Expense_manager.py: the SQLite-backed data-access layer of *)
(* the expense manager.  The state is the content of the database file     *)
(* (which tables exist, their rows, the AUTOINCREMENT counters kept in     *)
(* sqlite_sequence) together with the status of the connection opened by   *)
(* the most recent call and a record of that call (arguments, the point at *)
(* which a storage statement faulted, and what the caller got back).       *)
(* Every public function is one action; a call is synchronous and the      *)
(* program is single-threaded, so a call is one atomic step.               *)
(*                                                                         *)
(* Three specifications run the same actions over different inputs:        *)
(*   Spec      storage faults injected at every statement, minimal rows;   *)
(*   SpecData  no injected fault, rows varying in amount, description and  *)
(*             category;                                                   *)
(*   SpecList  no injected fault, rows varying in date and category.       *)
(***************************************************************************)
EXTENDS Integers, Sequences, FiniteSets, TLC

VARIABLES schema, categories, expenses, cat_seq, exp_seq, conn, call, removed

vars == <<schema, categories, expenses, cat_seq, exp_seq, conn, call, removed>>

(* ------------------------------ bounds --------------------------------- *)

\* Cap on the expenses AUTOINCREMENT counter (the number of rows ever inserted).
MaxExpenseId == 2

\* The same cap in the specification of the listing.
MaxListedId == 3

(* --------------------------- value domains ----------------------------- *)

\* Python None / SQL NULL, and a present value.
None == <<>>
Some(v) == <<v>>

\* Category names handed to addNewCategory.
Names == {"Food", "Transport"}

\* Names handed to the lookups; "Electronics" is never added (main(), line 278).
LookupNames == Names \cup {"Electronics"}

\* ISO dates YYYY-MM-DD as <<year, month, day>>; text comparison of the
\* fixed-width strings is the lexicographic comparison of the triples.
Dates == {<<2023, 11, 18>>, <<2023, 11, 21>>}

\* Every point of a call at which a storage statement can fault.
FaultPoints ==
    {"connect", "create1", "create2", "execute", "lookup", "insert", "update",
     "delete", "commit"}

\* The inputs a specification draws the calls' arguments from: the amounts
\* recorded and the amounts revised to, descriptions, category names looked
\* up, dates (also the value of datetime.now()), the points at which the
\* storage may fault, and the cap on the expense id counter.
\* Storage faults at every point; one amount, no description, one date.
Inputs ==
    [amounts |-> {10}, new_amounts |-> {10}, notes |-> {}, lookups |-> LookupNames,
     dates |-> {<<2023, 11, 21>>}, faults |-> FaultPoints, max_id |-> MaxExpenseId]

\* No injected fault (a missing table still faults); the amount, the
\* description and the category of a row vary.
DataInputs ==
    [amounts |-> {10}, new_amounts |-> {20}, notes |-> {"lunch"}, lookups |-> Names,
     dates |-> {<<2023, 11, 21>>}, faults |-> {}, max_id |-> MaxExpenseId]

\* No injected fault; the date and the category of a row vary.
ListInputs ==
    [amounts |-> {10}, new_amounts |-> {10}, notes |-> {}, lookups |-> Names,
     dates |-> Dates, faults |-> {}, max_id |-> MaxListedId]

\* Lexicographic rank of a category name (ORDER BY name).
NameRank(n) == IF n = "Electronics" THEN 1 ELSE IF n = "Food" THEN 2 ELSE 3

\* a < b for date strings.
DateLess(a, b) ==
    \/ a[1] < b[1]
    \/ a[1] = b[1] /\ a[2] < b[2]
    \/ a[1] = b[1] /\ a[2] = b[2] /\ a[3] < b[3]

(* ------------------------- what a call returns ------------------------- *)

RetNone == [tag |-> "None", val |-> <<>>]
RetTrue == [tag |-> "True", val |-> <<>>]
RetFalse == [tag |-> "False", val |-> <<>>]
RetRaise == [tag |-> "raise", val |-> <<>>]
RetId(i) == [tag |-> "id", val |-> <<i>>]
RetRows(rows) == [tag |-> "rows", val |-> rows]

(* ------------------- try / except / finally structure ------------------ *)

\* Variant: the category lookups of record_new_spending and reviseExpense
\* moved inside the try block.
TryBlock_with_lookup(op) ==
    CASE op = "addNewCategory" -> {"execute", "commit"}
      [] op = "record_new_spending" -> {"lookup", "insert", "commit"}
      [] op = "reviseExpense" -> {"lookup", "update", "commit"}
      [] op = "removeExpense" -> {"delete", "commit"}
      [] OTHER -> {}

\* The statements of each function that lie inside its try block.
TryBlock(op) ==
    CASE op = "addNewCategory" -> {"execute", "commit"}
      [] op = "record_new_spending" -> {"insert", "commit"}
      [] op = "reviseExpense" -> {"update", "commit"}
      [] op = "removeExpense" -> {"delete", "commit"}
      [] OTHER -> {}

\* The exception kinds the function's except clause catches.
Catches(op) ==
    CASE op = "addNewCategory" -> {"IntegrityError"}
      [] op \in {"record_new_spending", "reviseExpense", "removeExpense"} ->
            {"IntegrityError", "OperationalError"}
      [] OTHER -> {}

\* What the except clause returns.
HandlerValue(op) ==
    IF op \in {"reviseExpense", "removeExpense"} THEN RetFalse ELSE RetNone

\* The database as it is on disk now.
Db == [schema |-> schema, categories |-> categories, expenses |-> expenses,
       cat_seq |-> cat_seq, exp_seq |-> exp_seq]

\* A call ends: the database is left as db, the connection as c.
Exit(db, c, fault, ret) == [db |-> db, conn |-> c, fault |-> fault, ret |-> ret]

\* A storage statement at `point` raises an exception of `kind`.  Nothing of
\* the open transaction is committed.  sqlite3.connect failing leaves no
\* connection; inside the try block the finally clause closes it and the
\* except clause may swallow the exception; elsewhere the exception leaves
\* the function before conn.close() is reached.
OnError(op, point, kind) ==
    LET fault == IF kind = "OperationalError" THEN point ELSE "none" IN
    IF point = "connect" THEN Exit(Db, "none", fault, RetRaise)
    ELSE IF point \in TryBlock(op)
         THEN Exit(Db, "closed", fault,
                   IF kind \in Catches(op) THEN HandlerValue(op) ELSE RetRaise)
         ELSE Exit(Db, "open", fault, RetRaise)

(* ----------------------------- SQL helpers ------------------------------ *)

Min(S) == CHOOSE x \in S : \A y \in S : x <= y

Max(S) == CHOOSE x \in S : \A y \in S : y <= x

\* Variant: the SELECT without its WHERE clause; fetchone() gives the first row.
fetch_category_id_any(name) ==
    IF categories = {} THEN None
    ELSE Some(Min({c.category_id : c \in categories}))

\* Variant: a name that matches no row resolves to category id 1.
fetch_category_id_default(name) ==
    LET hits == {c.category_id : c \in {r \in categories : r.name = name}} IN
    IF hits = {} THEN Some(1) ELSE Some(Min(hits))

\* SELECT category_id FROM categories WHERE name = ?  followed by fetchone():
\* None when no row matches, otherwise the first matching row's id.
fetch_category_id(name) ==
    LET hits == {c.category_id : c \in {r \in categories : r.name = name}} IN
    IF hits = {} THEN None ELSE Some(Min(hits))

\* Variant: name declared TEXT NOT NULL, without UNIQUE.
category_constraint_not_null_only(categoryName) == categoryName = None

\* The constraints of  name TEXT UNIQUE NOT NULL  that an INSERT can violate.
category_constraint_fails(categoryName) ==
    \/ categoryName = None
    \/ \E c \in categories : c.name = categoryName[1]

\* Variant: INTEGER PRIMARY KEY without AUTOINCREMENT; the next rowid is one
\* more than the largest rowid present in the table.
next_expense_id_rowid ==
    IF expenses = {} THEN 1 ELSE Max({e.expense_id : e \in expenses}) + 1

\* The id AUTOINCREMENT gives the next expense row: one more than the largest
\* id the table has ever held (sqlite_sequence), not than the largest present.
next_expense_id == exp_seq + 1

\* The id AUTOINCREMENT gives the next category row.
next_category_id == cat_seq + 1

\* ORDER BY name over (category_id, name) rows.
RECURSIVE order_by_name(_)
order_by_name(S) ==
    IF S = {} THEN <<>>
    ELSE LET first == CHOOSE c \in S :
                        \A d \in S : NameRank(c.name) <= NameRank(d.name)
         IN <<<<first.category_id, first.name>>>> \o order_by_name(S \ {first})

\* FROM expenses e JOIN categories c ON e.category_id = c.category_id,
\* projected on (expense_id, amount, date, description, c.name).
joined_rows ==
    {<<jc[1].expense_id, jc[1].amount, jc[1].date, jc[1].description, jc[2].name>> :
        jc \in {p \in expenses \X categories : p[1].category_id = p[2].category_id}}

\* Variant: ORDER BY e.date DESC, e.expense_id (ascending tie-break).
newest_first_id_asc(a, b) ==
    \/ DateLess(b[3], a[3])
    \/ a[3] = b[3] /\ a[1] <= b[1]

\* Row a comes before row b under ORDER BY e.date DESC, e.expense_id DESC.
newest_first(a, b) ==
    \/ DateLess(b[3], a[3])
    \/ a[3] = b[3] /\ a[1] >= b[1]

RECURSIVE order_by(_)
order_by(S) ==
    IF S = {} THEN <<>>
    ELSE LET first == CHOOSE a \in S : \A b \in S : newest_first(a, b)
         IN <<first>> \o order_by(S \ {first})

\* The SET clauses reviseExpense builds: one optional value per column.
updates_to_make(new_amt, new_desc, new_category_name) ==
    [amount |-> new_amt,
     description |-> new_desc,
     category_id |-> IF new_category_name = None THEN None
                     ELSE fetch_category_id(new_category_name[1])]

\* Variant: an unresolved category name only drops the category clause.
lookup_failed_ignored(new_category_name) == FALSE

\* The lookup of a supplied category name found nothing: abort the update.
lookup_failed(new_category_name) ==
    /\ new_category_name # None
    /\ fetch_category_id(new_category_name[1]) = None

\* Variant: description = ? is always part of the SET clauses.
update_row_always_description(e, u) ==
    [e EXCEPT !.amount = IF u.amount = None THEN @ ELSE u.amount[1],
              !.description = u.description,
              !.category_id = IF u.category_id = None THEN @ ELSE u.category_id[1]]

\* One row after  UPDATE expenses SET <clauses>.
update_row(e, u) ==
    [e EXCEPT !.amount = IF u.amount = None THEN @ ELSE u.amount[1],
              !.description = IF u.description = None THEN @ ELSE u.description,
              !.category_id = IF u.category_id = None THEN @ ELSE u.category_id[1]]

\* Variant: the rowcount check never sees zero.
rowcount_ignored(expense_id) == 1

\* cursor.rowcount after a statement with  WHERE expense_id = ?.
rowcount(expense_id) == Cardinality({e \in expenses : e.expense_id = expense_id})

(* ------------------------------ operations ----------------------------- *)

setup_database_tables_effect(f) ==
    IF f = "connect" THEN OnError("setup_database_tables", "connect", "OperationalError")
    ELSE IF f = "create1" THEN OnError("setup_database_tables", "create1", "OperationalError")
    ELSE IF f = "create2"
         THEN \* the first CREATE TABLE ran outside any transaction and stays
              [OnError("setup_database_tables", "create2", "OperationalError")
                 EXCEPT !.db.schema = schema \cup {"categories"}]
    ELSE Exit([Db EXCEPT !.schema = {"categories", "expenses"}], "closed", "none", RetNone)

addNewCategory_effect(categoryName, f) ==
    IF f = "connect" THEN OnError("addNewCategory", "connect", "OperationalError")
    ELSE IF f = "execute" \/ "categories" \notin schema
         THEN OnError("addNewCategory", "execute", "OperationalError")
    ELSE IF category_constraint_fails(categoryName)
         THEN OnError("addNewCategory", "execute", "IntegrityError")
    ELSE IF f = "commit" THEN OnError("addNewCategory", "commit", "OperationalError")
    ELSE Exit([Db EXCEPT
                 !.categories = categories \cup
                     {[category_id |-> next_category_id, name |-> categoryName[1]]},
                 !.cat_seq = next_category_id],
              "closed", "none", RetId(next_category_id))

getAllCategories_effect(f) ==
    IF f = "connect" THEN OnError("getAllCategories", "connect", "OperationalError")
    ELSE IF f = "execute" \/ "categories" \notin schema
         THEN OnError("getAllCategories", "execute", "OperationalError")
    ELSE Exit(Db, "closed", "none", RetRows(order_by_name(categories)))

record_new_spending_effect(money_spent, note_description, cat_name, transaction_date, today, f) ==
    LET date == IF transaction_date = None THEN today ELSE transaction_date[1]
        cat_result == fetch_category_id(cat_name)
    IN
    IF f = "connect" THEN OnError("record_new_spending", "connect", "OperationalError")
    ELSE IF f = "lookup" \/ "categories" \notin schema
         THEN OnError("record_new_spending", "lookup", "OperationalError")
    ELSE IF cat_result = None THEN Exit(Db, "closed", "none", RetNone)
    ELSE IF f = "insert" \/ "expenses" \notin schema
         THEN OnError("record_new_spending", "insert", "OperationalError")
    ELSE IF money_spent = None
         THEN OnError("record_new_spending", "insert", "IntegrityError")
    ELSE IF f = "commit" THEN OnError("record_new_spending", "commit", "OperationalError")
    ELSE Exit([Db EXCEPT
                 !.expenses = expenses \cup
                     {[expense_id |-> next_expense_id, amount |-> money_spent[1],
                       date |-> date, description |-> note_description,
                       category_id |-> cat_result[1]]},
                 !.exp_seq = next_expense_id],
              "closed", "none", RetId(next_expense_id))

viewAllExpenses_effect(f) ==
    IF f = "connect" THEN OnError("viewAllExpenses", "connect", "OperationalError")
    ELSE IF f = "execute" \/ schema # {"categories", "expenses"}
         THEN OnError("viewAllExpenses", "execute", "OperationalError")
    ELSE Exit(Db, "closed", "none", RetRows(order_by(joined_rows)))

reviseExpense_effect(expense_record_id, new_amt, new_desc, new_category_name, f) ==
    LET u == updates_to_make(new_amt, new_desc, new_category_name) IN
    IF f = "connect" THEN OnError("reviseExpense", "connect", "OperationalError")
    ELSE IF new_category_name # None /\ (f = "lookup" \/ "categories" \notin schema)
         THEN OnError("reviseExpense", "lookup", "OperationalError")
    ELSE IF lookup_failed(new_category_name) THEN Exit(Db, "closed", "none", RetFalse)
    ELSE IF u.amount = None /\ u.description = None /\ u.category_id = None
         THEN Exit(Db, "closed", "none", RetFalse)
    ELSE IF f = "update" \/ "expenses" \notin schema
         THEN OnError("reviseExpense", "update", "OperationalError")
    ELSE IF rowcount(expense_record_id) = 0 THEN Exit(Db, "closed", "none", RetFalse)
    ELSE IF f = "commit" THEN OnError("reviseExpense", "commit", "OperationalError")
    ELSE Exit([Db EXCEPT
                 !.expenses = {IF e.expense_id = expense_record_id
                               THEN update_row(e, u) ELSE e : e \in expenses}],
              "closed", "none", RetTrue)

removeExpense_effect(expenseId, f) ==
    IF f = "connect" THEN OnError("removeExpense", "connect", "OperationalError")
    ELSE IF f = "delete" \/ "expenses" \notin schema
         THEN OnError("removeExpense", "delete", "OperationalError")
    ELSE IF rowcount(expenseId) = 0 THEN Exit(Db, "closed", "none", RetFalse)
    ELSE IF f = "commit" THEN OnError("removeExpense", "commit", "OperationalError")
    ELSE Exit([Db EXCEPT
                 !.expenses = {e \in expenses : e.expense_id # expenseId}],
              "closed", "none", RetTrue)

(* ------------------------------- actions ------------------------------- *)

\* The caller's view of a call: which function, the arguments the properties
\* speak about, where storage faulted, and the outcome.
Call(op, id, amt, desc, cat, eff) ==
    [op |-> op, id |-> id, amt |-> amt, desc |-> desc, cat |-> cat,
     fault |-> eff.fault, ret |-> eff.ret]

Apply(eff) ==
    /\ schema' = eff.db.schema
    /\ categories' = eff.db.categories
    /\ expenses' = eff.db.expenses
    /\ cat_seq' = eff.db.cat_seq
    /\ exp_seq' = eff.db.exp_seq
    /\ conn' = eff.conn

\* An optional argument over a set of values.
Optional(S) == {None} \cup {Some(v) : v \in S}

\* The fault injected into a call whose statements are `points`.
Faults(inp, points) == {"none"} \cup (inp.faults \cap points)

Init ==
    /\ schema = {}
    /\ categories = {}
    /\ expenses = {}
    /\ cat_seq = 0
    /\ exp_seq = 0
    /\ conn = "none"
    /\ call = [op |-> "start", id |-> 0, amt |-> None, desc |-> None, cat |-> None,
               fault |-> "none", ret |-> RetNone]
    /\ removed = {}

setup_database_tables(inp) ==
    \E f \in Faults(inp, {"connect", "create1", "create2"}) :
        LET eff == setup_database_tables_effect(f) IN
        /\ Apply(eff)
        /\ call' = Call("setup_database_tables", 0, None, None, None, eff)
        /\ UNCHANGED removed

addNewCategory(inp) ==
    \E categoryName \in Optional(Names),
       f \in Faults(inp, {"connect", "execute", "commit"}) :
        LET eff == addNewCategory_effect(categoryName, f) IN
        /\ Apply(eff)
        /\ call' = Call("addNewCategory", 0, None, None, categoryName, eff)
        /\ UNCHANGED removed

getAllCategories(inp) ==
    \E f \in Faults(inp, {"connect", "execute"}) :
        LET eff == getAllCategories_effect(f) IN
        /\ Apply(eff)
        /\ call' = Call("getAllCategories", 0, None, None, None, eff)
        /\ UNCHANGED removed

record_new_spending(inp) ==
    \E money_spent \in Optional(inp.amounts),
       note_description \in Optional(inp.notes),
       cat_name \in inp.lookups,
       transaction_date \in Optional(inp.dates),
       today \in inp.dates,
       f \in Faults(inp, {"connect", "lookup", "insert", "commit"}) :
        LET eff == record_new_spending_effect(money_spent, note_description, cat_name,
                                              transaction_date, today, f) IN
        /\ eff.db.exp_seq <= inp.max_id
        /\ Apply(eff)
        /\ call' = Call("record_new_spending", 0, None, None, Some(cat_name), eff)
        /\ UNCHANGED removed

viewAllExpenses(inp) ==
    \E f \in Faults(inp, {"connect", "execute"}) :
        LET eff == viewAllExpenses_effect(f) IN
        /\ Apply(eff)
        /\ call' = Call("viewAllExpenses", 0, None, None, None, eff)
        /\ UNCHANGED removed

reviseExpense(inp) ==
    \E expense_record_id \in 1 .. inp.max_id,
       new_amt \in Optional(inp.new_amounts),
       new_desc \in Optional(inp.notes),
       new_category_name \in Optional(inp.lookups),
       f \in Faults(inp, {"connect", "lookup", "update", "commit"}) :
        LET eff == reviseExpense_effect(expense_record_id, new_amt, new_desc,
                                        new_category_name, f) IN
        /\ Apply(eff)
        /\ call' = Call("reviseExpense", expense_record_id, new_amt, new_desc,
                        new_category_name, eff)
        /\ UNCHANGED removed

removeExpense(inp) ==
    \E expenseId \in 1 .. inp.max_id,
       f \in Faults(inp, {"connect", "delete", "commit"}) :
        LET eff == removeExpense_effect(expenseId, f) IN
        /\ Apply(eff)
        /\ call' = Call("removeExpense", expenseId, None, None, None, eff)
        /\ removed' = IF eff.ret = RetTrue THEN removed \cup {expenseId} ELSE removed

Next ==
    \/ setup_database_tables(Inputs)
    \/ addNewCategory(Inputs)
    \/ getAllCategories(Inputs)
    \/ record_new_spending(Inputs)
    \/ viewAllExpenses(Inputs)
    \/ reviseExpense(Inputs)
    \/ removeExpense(Inputs)

Spec == Init /\ [][Next]_vars

NextData ==
    \/ setup_database_tables(DataInputs)
    \/ addNewCategory(DataInputs)
    \/ getAllCategories(DataInputs)
    \/ record_new_spending(DataInputs)
    \/ viewAllExpenses(DataInputs)
    \/ reviseExpense(DataInputs)
    \/ removeExpense(DataInputs)

SpecData == Init /\ [][NextData]_vars

NextList ==
    \/ setup_database_tables(ListInputs)
    \/ addNewCategory(ListInputs)
    \/ getAllCategories(ListInputs)
    \/ record_new_spending(ListInputs)
    \/ viewAllExpenses(ListInputs)
    \/ reviseExpense(ListInputs)
    \/ removeExpense(ListInputs)

SpecList == Init /\ [][NextList]_vars

TypeOK ==
    /\ schema \subseteq {"categories", "expenses"}
    /\ \A c \in categories : c.category_id \in 1 .. cat_seq /\ c.name \in Names
    /\ \A e \in expenses : e.expense_id \in 1 .. exp_seq /\ e.date \in Dates
    /\ conn \in {"none", "open", "closed"}

(* ------------------------------ properties ----------------------------- *)

\* The rows of both tables.
Store == <<categories, expenses>>

NameStored(name) == \E c \in categories : c.name = name

IdStored(id) == \E e \in expenses : e.expense_id = id

\* C1: record_new_spending with a category name that no category row carries
\* inserts nothing and creates no category; the caller gets None (or, when a
\* storage statement faulted, the exception), never an identifier.
C1_Step ==
    (/\ call'.op = "record_new_spending"
     /\ ~NameStored(call'.cat[1]))
    => /\ Store' = Store
       /\ call'.ret.tag \in {"None", "raise"}
       /\ call'.fault = "none" => call'.ret.tag = "None"

C1_UnknownCategoryInsertsNothing == [][C1_Step]_vars

\* C1 witness: with the tables present and a category stored, a record call
\* naming another category has returned None.
C1_Witness ==
    /\ call.op = "record_new_spending"
    /\ call.fault = "none"
    /\ call.ret.tag = "None"
    /\ schema = {"categories", "expenses"}
    /\ categories # {}
    /\ ~NameStored(call.cat[1])

\* C2: every stored expense references a category row that exists.
C2_ReferentialIntegrity ==
    \A e \in expenses : \E c \in categories : c.category_id = e.category_id

\* C2 witness: a revision that supplied a category has succeeded and the
\* table holds expenses of two different categories.
C2_Witness ==
    /\ call.op = "reviseExpense"
    /\ call.ret.tag = "True"
    /\ call.cat # None
    /\ \E e1, e2 \in expenses : e1.category_id # e2.category_id

\* C3: no two category rows share a name; addNewCategory with a new name adds
\* exactly one row under a fresh id and returns that id; with a stored name it
\* returns None, raises nothing and leaves the table as it was.
C3_NamesUnique ==
    \A c, d \in categories : c.name = d.name => c = d

C3_Step ==
    (/\ call'.op = "addNewCategory"
     /\ call'.cat # None
     /\ call'.fault = "none")
    => IF NameStored(call'.cat[1])
       THEN /\ call'.ret.tag = "None"
            /\ Store' = Store
       ELSE /\ call'.ret.tag = "id"
            /\ \A c \in categories : c.category_id # call'.ret.val[1]
            /\ categories' = categories \cup
                  {[category_id |-> call'.ret.val[1], name |-> call'.cat[1]]}
            /\ expenses' = expenses

C3_UniqueCategoryNames == [](C3_NamesUnique) /\ [][C3_Step]_vars

\* C3 witness: a second addNewCategory of a stored name has returned None
\* while two categories are stored.
C3_Witness ==
    /\ call.op = "addNewCategory"
    /\ call.cat # None
    /\ call.fault = "none"
    /\ call.ret.tag = "None"
    /\ NameStored(call.cat[1])
    /\ Cardinality(categories) = 2

\* C4: reviseExpense with a category name that resolves to nothing returns
\* False and changes no row, whatever amount and description came with it.
C4_Step ==
    (/\ call'.op = "reviseExpense"
     /\ call'.cat # None
     /\ ~NameStored(call'.cat[1]))
    => /\ Store' = Store
       /\ call'.ret.tag \in {"False", "raise"}
       /\ call'.fault = "none" => call'.ret.tag = "False"

C4_FailedRevisionChangesNothing == [][C4_Step]_vars

\* C4 witness: a revision of a stored expense with a new amount, a new
\* description and an unknown category has returned False.
C4_Witness ==
    /\ call.op = "reviseExpense"
    /\ call.ret.tag = "False"
    /\ call.cat # None
    /\ ~NameStored(call.cat[1])
    /\ call.amt # None
    /\ call.desc # None
    /\ \E e \in expenses :
          /\ e.expense_id = call.id
          /\ e.amount # call.amt[1]
          /\ e.description # call.desc

\* C5: a successful reviseExpense replaces exactly the supplied columns of
\* the target row (the category by the id of the named category) and leaves
\* its other columns, its id and date, every other row and the categories.
C5_Step ==
    (/\ call'.op = "reviseExpense"
     /\ call'.ret.tag = "True")
    => /\ categories' = categories
       /\ call'.cat # None => NameStored(call'.cat[1])
       /\ \E e \in expenses :
             /\ e.expense_id = call'.id
             /\ expenses' = (expenses \ {e}) \cup
                  {[expense_id |-> e.expense_id,
                    date |-> e.date,
                    amount |-> IF call'.amt = None THEN e.amount ELSE call'.amt[1],
                    description |-> IF call'.desc = None THEN e.description
                                    ELSE call'.desc,
                    category_id |->
                        IF call'.cat = None THEN e.category_id
                        ELSE (CHOOSE c \in categories :
                                 c.name = call'.cat[1]).category_id]}

C5_RevisionChangesSuppliedFieldsOnly == [][C5_Step]_vars

\* C5 witness: a revision supplying only an amount has succeeded on a row
\* that carries a description, beside another row.
C5_Witness ==
    /\ call.op = "reviseExpense"
    /\ call.ret.tag = "True"
    /\ call.amt # None
    /\ call.desc = None
    /\ call.cat = None
    /\ Cardinality(expenses) = 2
    /\ \E e \in expenses : e.expense_id = call.id /\ e.description # None

\* C6: an expense id that removeExpense has removed never names a row again:
\* later removals and revisions of it fail and change nothing, and no later
\* record_new_spending returns it.
C6_Step ==
    /\ \A e \in expenses' : e.expense_id \notin removed'
    /\ (/\ call'.op \in {"removeExpense", "reviseExpense"}
        /\ call'.id \in removed)
       => /\ Store' = Store
          /\ call'.ret.tag \in {"False", "raise"}
          /\ call'.fault = "none" => call'.ret.tag = "False"
    /\ (/\ call'.op = "record_new_spending"
        /\ call'.ret.tag = "id")
       => call'.ret.val[1] \notin removed

C6_DeletionIsFinal == [][C6_Step]_vars

\* C6 witness: after a removal, record_new_spending has returned an id.
C6_Witness ==
    /\ removed # {}
    /\ call.op = "record_new_spending"
    /\ call.ret.tag = "id"

\* C7: viewAllExpenses returns one (id, amount, date, description, name) tuple
\* per stored expense and nothing else, the name being that of the category
\* the expense references, newest date first and, within a date, highest id
\* first.
C7_ListingIsJoinNewestFirst ==
    (/\ call.op = "viewAllExpenses"
     /\ call.ret.tag = "rows")
    => LET rows == call.ret.val IN
       /\ Len(rows) = Cardinality(expenses)
       /\ \A e \in expenses : \E i \in 1 .. Len(rows), c \in categories :
             /\ c.category_id = e.category_id
             /\ rows[i] = <<e.expense_id, e.amount, e.date, e.description, c.name>>
       /\ \A i, j \in 1 .. Len(rows) :
             i < j => \/ DateLess(rows[j][3], rows[i][3])
                      \/ rows[i][3] = rows[j][3] /\ rows[i][1] > rows[j][1]

\* C7 witness: a listing of three expenses, two of one date before one of an
\* earlier date.
C7_Witness ==
    /\ call.op = "viewAllExpenses"
    /\ call.ret.tag = "rows"
    /\ Len(call.ret.val) = 3
    /\ call.ret.val[1][3] = call.ret.val[2][3]
    /\ call.ret.val[2][3] # call.ret.val[3][3]
    /\ call.ret.val[1][5] # call.ret.val[2][5]

\* C8: once a call has returned or failed, the connection it opened is not
\* left open.
C8_ConnectionReleased == conn # "open"

\* C9: reviseExpense (with a field supplied and a resolvable category) and
\* removeExpense on an id that names no row return False and change nothing.
C9_Step ==
    (/\ \/ call'.op = "removeExpense"
        \/ /\ call'.op = "reviseExpense"
           /\ (call'.amt # None \/ call'.desc # None \/ call'.cat # None)
           /\ call'.cat # None => NameStored(call'.cat[1])
     /\ ~IdStored(call'.id))
    => /\ Store' = Store
       /\ call'.ret.tag \in {"False", "raise"}
       /\ call'.fault = "none" => call'.ret.tag = "False"

C9_UnknownIdChangesNothing == [][C9_Step]_vars

\* C9 witness: a revision of an id that names no row, beside a stored row and
\* with a resolvable category, has returned False.
C9_Witness ==
    /\ call.op = "reviseExpense"
    /\ call.fault = "none"
    /\ call.ret.tag = "False"
    /\ call.cat # None
    /\ NameStored(call.cat[1])
    /\ expenses # {}
    /\ ~IdStored(call.id)

WriteCalls == {"record_new_spending", "reviseExpense", "removeExpense"}

\* C10 as stated: a storage fault during record, revise or remove reaches the
\* caller as an exception, never as the None / False of the recoverable
\* failures.
C10_FaultIsFatal ==
    (call.op \in WriteCalls /\ call.fault # "none") => call.ret.tag = "raise"

\* C10 amended: a fault at sqlite3.connect or in the category lookup reaches
\* the caller as an exception; a fault in the INSERT / UPDATE / DELETE
\* statement or in the commit is caught and comes back as the None (record)
\* or False (revise, remove) of the recoverable failures.
C10_FaultOutcome ==
    call.op \in WriteCalls =>
        /\ call.fault \in {"connect", "lookup"} => call.ret.tag = "raise"
        /\ call.fault \in {"insert", "update", "delete", "commit"} =>
              call.ret.tag = IF call.op = "record_new_spending" THEN "None"
                             ELSE "False"

\* C10 witness: with the category stored and both tables present, the commit
\* of record_new_spending faulted and the call returned None; nothing stored.
C10_Witness ==
    /\ call.op = "record_new_spending"
    /\ call.fault = "commit"
    /\ call.ret.tag = "None"
    /\ NameStored(call.cat[1])
    /\ expenses = {}

====
